---- MODULE Spec2Model ----
(***************************************************************************)
(* Model of itemdb.py: the ItemDB decoder `parse`, its primitive readers   *)
(* `_parse_int` / `_parse_str`, and the XOR transform `_xor_str`.          *)
(*                                                                         *)
(* The byte source is a forward-only stream (`_SupportsRead`).  Its        *)
(* content is chosen when it is read: `src` holds the bytes handed out so  *)
(* far and `eof` tells that the stream has ended.  `read(size)` of a       *)
(* file-like object returns fewer than `size` bytes exactly when the       *)
(* stream ends, and never raises.                                          *)
(***************************************************************************)
EXTENDS Integers, Sequences, FiniteSets, TLC

VARIABLES
    template,    \* the template argument of parse (a class, by name)
    src,         \* bytes the buffer has handed out so far
    eof,         \* the buffer is exhausted (a read came back short)
    version,     \* local `version` of parse
    item_count,  \* local `item_count` of parse
    items,       \* local list `items`
    i,           \* loop variable of `for i in range(item_count)`
    k,           \* position in template.__annotations__ (1-based)
    item,        \* the instance `item` being filled, one value per field
    pc,          \* where parse is
    err,         \* the exception parse raised, if any
    result,      \* the tuple parse returned, if any
    xs, xkey, xoffset, x1, x2, xpc   \* a double application of _xor_str

vars == <<template, src, eof, version, item_count, items, i, k, item, pc,
          err, result, xs, xkey, xoffset, x1, x2, xpc>>

parseVars == <<template, src, eof, version, item_count, items, i, k, item,
               pc, err, result>>

xorVars == <<xs, xkey, xoffset, x1, x2, xpc>>

-----------------------------------------------------------------------------
(* Bounds of the explored inputs *)

MaxCount == 2      \* record counts 0..MaxCount in the header
MaxStr == 2        \* declared string lengths 0..MaxStr
MaxXorLen == 2     \* length of the strings given to _xor_str
MaxOffset == 2     \* offsets given to _xor_str

(* Program constants *)

ChrLimit == 1114112          \* chr() accepts range(0x110000)

-----------------------------------------------------------------------------
(* Python values.  None, int and str are kept apart by a tag; a str is the *)
(* sequence of its code points.                                            *)

NoneV == [tag |-> "None", n |-> 0, s |-> <<>>]

IntV(n) == [tag |-> "int", n |-> n, s |-> <<>>]

StrV(s) == [tag |-> "str", n |-> 0, s |-> s]

FieldV == [tag |-> "_Field", n |-> 0, s |-> <<>>]

NoError ==
    [kind |-> "none", index |-> 0, actual |-> NoneV, version |-> 0, field |-> ""]

NoResult == [returned |-> FALSE, version |-> 0, item_count |-> 0, items |-> <<>>]

-----------------------------------------------------------------------------
(* _Field and the templates *)

_Field(name, t, size, ver, key) ==
    [name |-> name, t |-> t, size |-> size, version |-> ver, xor_key |-> key]

NameKey == StrV(<<80, 66, 71, 56, 57, 50, 70, 88, 88, 57, 56, 50, 65, 66, 67, 42>>)

Item ==
    << _Field("id", "int", 4, 1, NoneV),
       _Field("properties", "int", 2, 1, NoneV),
       _Field("type", "int", 1, 1, NoneV),
       _Field("material", "int", 1, 1, NoneV),
       _Field("name", "str", -1, 1, NameKey),
       _Field("file_name", "str", -1, 1, NoneV),
       _Field("file_hash", "int", 4, 1, NoneV),
       _Field("visual_type", "int", 1, 1, NoneV),
       _Field("cook_time", "int", 4, 1, NoneV),
       _Field("tex_x", "int", 1, 1, NoneV),
       _Field("tex_y", "int", 1, 1, NoneV),
       _Field("storage_type", "int", 1, 1, NoneV),
       _Field("layer", "int", 1, 1, NoneV),
       _Field("collision_type", "int", 1, 1, NoneV),
       _Field("hardness", "int", 1, 1, NoneV),
       _Field("regen_time", "int", 4, 1, NoneV),
       _Field("clothing_type", "int", 1, 1, NoneV),
       _Field("rarity", "int", 2, 1, NoneV),
       _Field("max_hold", "int", 1, 1, NoneV),
       _Field("alt_file_path", "str", -1, 1, NoneV),
       _Field("alt_file_hash", "int", 4, 1, NoneV),
       _Field("anim_ms", "int", 4, 1, NoneV),
       _Field("pet_name", "str", -1, 4, NoneV),
       _Field("pet_prefix", "str", -1, 4, NoneV),
       _Field("pet_suffix", "str", -1, 4, NoneV),
       _Field("pet_ability", "str", -1, 5, NoneV),
       _Field("seed_base", "int", 1, 1, NoneV),
       _Field("seed_over", "int", 1, 1, NoneV),
       _Field("tree_base", "int", 1, 1, NoneV),
       _Field("tree_over", "int", 1, 1, NoneV),
       _Field("bg_col", "int", 4, 1, NoneV),
       _Field("fg_col", "int", 4, 1, NoneV),
       _Field("seed1", "int", 2, 1, NoneV),
       _Field("seed2", "int", 2, 1, NoneV),
       _Field("bloom_time", "int", 4, 1, NoneV),
       _Field("anim_type", "int", 4, 7, NoneV),
       _Field("anim_string", "str", -1, 7, NoneV),
       _Field("anim_tex", "str", -1, 8, NoneV),
       _Field("anim_string2", "str", -1, 8, NoneV),
       _Field("dlayer1", "int", 4, 8, NoneV),
       _Field("dlayer2", "int", 4, 8, NoneV),
       _Field("properties2", "int", 2, 9, NoneV),
       _Field("_unknown1", "None", 62, 9, NoneV),
       _Field("tile_range", "int", 4, 10, NoneV),
       _Field("pile_range", "int", 4, 10, NoneV),
       _Field("custom_punch", "str", -1, 11, NoneV),
       _Field("_unknown2", "None", 13, 12, NoneV),
       _Field("clock_div", "int", 4, 13, NoneV),
       _Field("parent_id", "int", 4, 14, NoneV),
       _Field("_unknown3", "None", 25, 15, NoneV),
       _Field("alt_sit_path", "str", -1, 15, NoneV),
       _Field("_unknown4", "str", -1, 16, NoneV) >>

(* Templates a caller passes instead of Item ("You can create your own     *)
(* template by creating a dataclass and using _Fields").                   *)

AB == StrV(<<65, 66>>)

Reduced ==
    << _Field("id", "int", 4, 1, NoneV),
       _Field("flag", "int", 1, 1, NoneV) >>

Bonus ==
    << _Field("id", "int", 4, 1, NoneV),
       _Field("name", "str", -1, 1, AB),
       _Field("bonus", "int", 1, 5, NoneV) >>

Padded ==
    << _Field("_pad", "None", 2, 1, NoneV),
       _Field("id", "int", 1, 1, NoneV),
       _Field("_blob", "None", -1, 2, NoneV),
       _Field("tag", "int", 2, 3, NoneV) >>

Scaled ==
    << _Field("id", "int", 1, 1, NoneV),
       _Field("label", "str", -1, 1, NoneV),
       _Field("scale", "float", 4, 3, NoneV) >>

LateId ==
    << _Field("id", "int", 1, 2, NoneV),
       _Field("name", "str", -1, 1, AB) >>

TemplateNames == {"Item", "Reduced", "Bonus", "Padded", "Scaled", "LateId"}

(* template.__annotations__ paired with the class attributes' defaults *)
Fields(tpl) ==
    CASE tpl = "Item" -> Item
      [] tpl = "Reduced" -> Reduced
      [] tpl = "Bonus" -> Bonus
      [] tpl = "Padded" -> Padded
      [] tpl = "Scaled" -> Scaled
      [] tpl = "LateId" -> LateId

(* the attribute `item.id` is the field named id, wherever it is declared *)
IdIndex(tpl) == CHOOSE j \in 1..Len(Fields(tpl)) : Fields(tpl)[j].name = "id"

-----------------------------------------------------------------------------
(* Pure functions *)

RECURSIVE from_bytes_big(_)
from_bytes_big(bs) ==
    IF bs = <<>> THEN 0
    ELSE bs[Len(bs)] + 256 * from_bytes_big(SubSeq(bs, 1, Len(bs) - 1))

(* int.from_bytes(bs, "little") *)
RECURSIVE from_bytes(_)
from_bytes(bs) ==
    IF bs = <<>> THEN 0 ELSE Head(bs) + 256 * from_bytes(Tail(bs))

IsCont(b) == b >= 128 /\ b <= 191

(* bytes.decode("utf-8"), strict: the code points of bs, or a failure *)
RECURSIVE decode(_)
decode(bs) ==
    IF bs = <<>> THEN [ok |-> TRUE, s |-> <<>>]
    ELSE LET b == bs[1]
             n == IF b < 128 THEN 1
                  ELSE IF b >= 194 /\ b <= 223 THEN 2
                  ELSE IF b >= 224 /\ b <= 239 THEN 3
                  ELSE IF b >= 240 /\ b <= 244 THEN 4
                  ELSE 0
             wellFormed ==
                 /\ n > 0
                 /\ Len(bs) >= n
                 /\ \A j \in 2..n : IsCont(bs[j])
                 /\ (b = 224 => bs[2] >= 160)
                 /\ (b = 237 => bs[2] <= 159)
                 /\ (b = 240 => bs[2] >= 144)
                 /\ (b = 244 => bs[2] <= 143)
             cp == CASE n = 1 -> b
                     [] n = 2 -> (b - 192) * 64 + (bs[2] - 128)
                     [] n = 3 -> (b - 224) * 4096 + (bs[2] - 128) * 64
                                 + (bs[3] - 128)
                     [] n = 4 -> (b - 240) * 262144 + (bs[2] - 128) * 4096
                                 + (bs[3] - 128) * 64 + (bs[4] - 128)
                     [] OTHER -> 0
         IN  IF ~wellFormed THEN [ok |-> FALSE, s |-> <<>>]
             ELSE LET rest == decode(SubSeq(bs, n + 1, Len(bs)))
                  IN  [ok |-> rest.ok,
                       s |-> IF rest.ok THEN <<cp>> \o rest.s ELSE <<>>]

RECURSIVE BitOr(_, _)
BitOr(a, b) ==
    IF a = 0 /\ b = 0 THEN 0
    ELSE (IF a % 2 = 1 \/ b % 2 = 1 THEN 1 ELSE 0)
         + 2 * BitOr(a \div 2, b \div 2)

(* the integer operator ^ *)
RECURSIVE BitXor(_, _)
BitXor(a, b) ==
    IF a = 0 /\ b = 0 THEN 0
    ELSE ((a + b) % 2) + 2 * BitXor(a \div 2, b \div 2)

(* _xor_str: the loop over range(len(str)), result built left to right.   *)
(* chr() raises ValueError outside range(0x110000); ok = FALSE then.       *)
RECURSIVE xor_loop(_, _, _, _, _)
xor_loop(str, key, offset, p, acc) ==
    IF p >= Len(str) THEN [ok |-> TRUE, s |-> acc]
    ELSE LET c == BitXor(str[p + 1], key[((p + offset) % Len(key)) + 1])
         IN  IF c >= ChrLimit THEN [ok |-> FALSE, s |-> <<>>]
             ELSE xor_loop(str, key, offset, p + 1, Append(acc, c))

_xor_str(str, key, offset) == xor_loop(str, key, offset, 0, <<>>)

-----------------------------------------------------------------------------
(* What the buffer can hold.  A read is answered with a word of the asked  *)
(* size, or with a shorter one when the stream ends there.                 *)

IntFirst == (0..MaxCount) \cup {5}

StrBytes == {65, 195, 169}      \* "A", and the two bytes of U+00E9

BlobBytes == {255}

Words(n, firsts) == { [j \in 1..n |-> IF j = 1 THEN b ELSE 0] : b \in firsts }

HighWord(n) == [j \in 1..n |-> IF j = 2 THEN 1 ELSE 0]

IntWords(n) == Words(n, IntFirst) \cup (IF n >= 2 THEN {HighWord(n)} ELSE {})

VersionWords(tpl) ==
    IF tpl = "Item" THEN Words(2, {0})
    ELSE Words(2, 0..3) \cup {HighWord(2)}

CountWords == Words(4, 0..MaxCount)

LenWords == Words(2, 0..MaxStr)

StrWords(n) == [1..n -> StrBytes]

BlobWords(n) == Words(n, BlobBytes)

(* buffer.read(size): the possible answers, given the words a full answer  *)
(* is drawn from and whether the stream has already ended                  *)
read(size, pool, ended) ==
    IF size = 0 \/ ended THEN {<<>>}
    ELSE pool \cup { SubSeq(w, 1, m) : w \in pool, m \in 0..(size - 1) }

(* _parse_int applied to the bytes its read returned *)
_parse_int(bytes) == from_bytes(bytes)

(* _parse_str: every way the two reads can be answered; `taken` is what    *)
(* was consumed, `ended` the stream state after, `d` the decoded text      *)
_parse_str(ended) ==
    UNION { LET len == _parse_int(lw)
                ended1 == ended \/ Len(lw) < 2
            IN  { [taken |-> lw \o bw,
                   ended |-> ended1 \/ Len(bw) < len,
                   d |-> decode(bw)] : bw \in read(len, StrWords(len), ended1) }
            : lw \in read(2, LenWords, ended) }

-----------------------------------------------------------------------------
(* parse *)

XorIdle ==
    /\ xs = <<>> /\ xkey = <<>> /\ xoffset = 0
    /\ x1 = [ok |-> TRUE, s |-> <<>>] /\ x2 = [ok |-> TRUE, s |-> <<>>]
    /\ xpc = "idle"

Init ==
    /\ template \in TemplateNames
    /\ src = <<>>
    /\ eof = FALSE
    /\ version = 0
    /\ item_count = 0
    /\ items = <<>>
    /\ i = 0
    /\ k = 0
    /\ item = <<>>
    /\ pc = "version"
    /\ err = NoError
    /\ result = NoResult
    /\ XorIdle

(* version = _parse_int(buffer, 2) *)
ReadVersion ==
    /\ pc = "version"
    /\ \E w \in read(2, VersionWords(template), eof) :
          /\ version' = _parse_int(w)
          /\ src' = src \o w
          /\ eof' = (eof \/ Len(w) < 2)
    /\ pc' = "count"
    /\ UNCHANGED <<template, item_count, items, i, k, item, err, result>>
    /\ UNCHANGED xorVars

(* item_count = _parse_int(buffer, 4); items = [] *)
ReadCount ==
    /\ pc = "count"
    /\ \E w \in read(4, CountWords, eof) :
          /\ item_count' = _parse_int(w)
          /\ src' = src \o w
          /\ eof' = (eof \/ Len(w) < 4)
    /\ items' = <<>>
    /\ i' = 0
    /\ pc' = "loop"
    /\ UNCHANGED <<template, version, k, item, err, result>>
    /\ UNCHANGED xorVars

(* for i in range(item_count): item = template() *)
NextItem ==
    /\ pc = "loop"
    /\ i < item_count
    /\ item' = [j \in 1..Len(Fields(template)) |-> FieldV]
    /\ k' = 1
    /\ pc' = "field"
    /\ UNCHANGED <<template, src, eof, version, item_count, items, i, err, result>>
    /\ UNCHANGED xorVars

(* return version, item_count, items *)
Return ==
    /\ pc = "loop"
    /\ i >= item_count
    /\ result' = [returned |-> TRUE, version |-> version,
                  item_count |-> item_count, items |-> items]
    /\ pc' = "done"
    /\ UNCHANGED <<template, src, eof, version, item_count, items, i, k, item, err>>
    /\ UNCHANGED xorVars

(* the descriptor at hand: f = getattr(item, k) *)
f == Fields(template)[k]

(* setattr(item, k, value), then on to the next annotation or the id check *)
SetAttr(value) ==
    /\ item' = [item EXCEPT ![k] = value]
    /\ k' = IF k = Len(Fields(template)) THEN k ELSE k + 1
    /\ pc' = IF k = Len(Fields(template)) THEN "check" ELSE "field"
    /\ err' = err

Raise(kind, actual, name) ==
    /\ err' = [kind |-> kind, index |-> i, actual |-> actual,
               version |-> version, field |-> name]
    /\ pc' = "failed"
    /\ UNCHANGED <<item, k>>

GatedStrict(fld, ver) == fld.version >= ver

(* f.version > version *)
Gated(fld, ver) == fld.version > ver

(* if f.version > version: pass *)
FieldAbsent ==
    /\ pc = "field"
    /\ Gated(f, version)
    /\ SetAttr(NoneV)
    /\ UNCHANGED <<template, src, eof, version, item_count, items, i, result>>
    /\ UNCHANGED xorVars

FieldIntEager ==
    /\ pc = "field"
    /\ ~Gated(f, version)
    /\ f.t = "int"
    /\ \E w \in read(f.size, IntWords(f.size), eof) :
          /\ src' = src \o w
          /\ eof' = (eof \/ Len(w) < f.size)
          /\ IF f.name = "id" /\ _parse_int(w) # i
             THEN Raise("ValueError: Offset mismatch", IntV(_parse_int(w)), "id")
             ELSE SetAttr(IntV(_parse_int(w)))
    /\ UNCHANGED <<template, version, item_count, items, i, result>>
    /\ UNCHANGED xorVars

(* elif t == int: value = _parse_int(buffer, f.size) *)
FieldInt ==
    /\ pc = "field"
    /\ ~Gated(f, version)
    /\ f.t = "int"
    /\ \E w \in read(f.size, IntWords(f.size), eof) :
          /\ src' = src \o w
          /\ eof' = (eof \/ Len(w) < f.size)
          /\ SetAttr(IntV(_parse_int(w)))
    /\ UNCHANGED <<template, version, item_count, items, i, result>>
    /\ UNCHANGED xorVars

XorAlways(fld, ver) == fld.xor_key.tag # "None"

(* if f.xor_key is not None and version >= 3 *)
XorApplies(fld, ver) == fld.xor_key.tag # "None" /\ ver >= 3

(* elif t == str: value = _parse_str(buffer), XORed when the key applies *)
FieldStr ==
    /\ pc = "field"
    /\ ~Gated(f, version)
    /\ f.t = "str"
    /\ \E r \in _parse_str(eof) :
          /\ src' = src \o r.taken
          /\ eof' = r.ended
          /\ IF ~r.d.ok
             THEN Raise("UnicodeDecodeError", NoneV, f.name)
             ELSE IF XorApplies(f, version)
                  THEN LET x == _xor_str(r.d.s, f.xor_key.s, i)
                       IN  IF x.ok THEN SetAttr(StrV(x.s))
                           ELSE Raise("ValueError: chr", NoneV, f.name)
                  ELSE SetAttr(StrV(r.d.s))
    /\ UNCHANGED <<template, version, item_count, items, i, result>>
    /\ UNCHANGED xorVars

(* elif t is None: _parse_int(buffer, f.size) if f.size > 0 else           *)
(* _parse_str(buffer); value stays None                                    *)
FieldNone ==
    /\ pc = "field"
    /\ ~Gated(f, version)
    /\ f.t = "None"
    /\ IF f.size > 0
       THEN \E w \in read(f.size, BlobWords(f.size), eof) :
               /\ src' = src \o w
               /\ eof' = (eof \/ Len(w) < f.size)
               /\ SetAttr(NoneV)
       ELSE \E r \in _parse_str(eof) :
               /\ src' = src \o r.taken
               /\ eof' = r.ended
               /\ IF r.d.ok THEN SetAttr(NoneV)
                  ELSE Raise("UnicodeDecodeError", NoneV, f.name)
    /\ UNCHANGED <<template, version, item_count, items, i, result>>
    /\ UNCHANGED xorVars

(* else: raise ValueError("Unknown field type in template: ...") *)
FieldUnknown ==
    /\ pc = "field"
    /\ ~Gated(f, version)
    /\ f.t \notin {"int", "str", "None"}
    /\ Raise("ValueError: Unknown field type", NoneV, f.name)
    /\ UNCHANGED <<template, src, eof, version, item_count, items, i, result>>
    /\ UNCHANGED xorVars

IdDiffersLenient ==
    /\ item[IdIndex(template)].tag # "None"
    /\ IntV(i) # item[IdIndex(template)]

(* i != item.id *)
IdDiffers == IntV(i) # item[IdIndex(template)]

IdMismatchSkip ==
    /\ pc = "check"
    /\ IdDiffers
    /\ i' = i + 1
    /\ pc' = "loop"
    /\ UNCHANGED <<template, src, eof, version, item_count, items, k, item, err, result>>
    /\ UNCHANGED xorVars

(* if i != item.id: raise ValueError("Offset mismatch, ...") *)
IdMismatch ==
    /\ pc = "check"
    /\ IdDiffers
    /\ Raise("ValueError: Offset mismatch", item[IdIndex(template)], "id")
    /\ UNCHANGED <<template, src, eof, version, item_count, items, i, result>>
    /\ UNCHANGED xorVars

AppendItemFront ==
    /\ pc = "check"
    /\ ~IdDiffers
    /\ items' = <<item>> \o items
    /\ i' = i + 1
    /\ pc' = "loop"
    /\ UNCHANGED <<template, src, eof, version, item_count, k, item, err, result>>
    /\ UNCHANGED xorVars

(* items.append(item) *)
AppendItem ==
    /\ pc = "check"
    /\ ~IdDiffers
    /\ items' = Append(items, item)
    /\ i' = i + 1
    /\ pc' = "loop"
    /\ UNCHANGED <<template, src, eof, version, item_count, k, item, err, result>>
    /\ UNCHANGED xorVars

Next ==
    \/ ReadVersion
    \/ ReadCount
    \/ NextItem
    \/ Return
    \/ FieldAbsent
    \/ FieldInt
    \/ FieldStr
    \/ FieldNone
    \/ FieldUnknown
    \/ IdMismatch
    \/ AppendItem

Spec == Init /\ [][Next]_vars

-----------------------------------------------------------------------------
(* _xor_str applied twice to inputs drawn from bounded sets *)

MaxKeyLen == 2

XorChars == {0, 65, 233, 1048576, 1114111}

KeyChars == {65, 66, 1048575}

SeqsUpTo(S, n) == UNION { [1..m -> S] : m \in 0..n }

XorInit ==
    /\ template = "Item"
    /\ src = <<>>
    /\ eof = FALSE
    /\ version = 0
    /\ item_count = 0
    /\ items = <<>>
    /\ i = 0
    /\ k = 0
    /\ item = <<>>
    /\ pc = "idle"
    /\ err = NoError
    /\ result = NoResult
    /\ xs \in SeqsUpTo(XorChars, MaxXorLen)
    /\ xkey \in SeqsUpTo(KeyChars, MaxKeyLen) \ {<<>>}
    /\ xoffset \in 0..MaxOffset
    /\ x1 = [ok |-> TRUE, s |-> <<>>]
    /\ x2 = [ok |-> TRUE, s |-> <<>>]
    /\ xpc = "start"

XorOnce ==
    /\ xpc = "start"
    /\ x1' = _xor_str(xs, xkey, xoffset)
    /\ xpc' = "once"
    /\ UNCHANGED <<xs, xkey, xoffset, x2>>
    /\ UNCHANGED parseVars

XorTwice ==
    /\ xpc = "once"
    /\ x1.ok
    /\ x2' = _xor_str(x1.s, xkey, xoffset)
    /\ xpc' = "twice"
    /\ UNCHANGED <<xs, xkey, xoffset, x1>>
    /\ UNCHANGED parseVars

XorNext ==
    \/ XorOnce
    \/ XorTwice

XorSpec == XorInit /\ [][XorNext]_vars

-----------------------------------------------------------------------------
(* Properties *)

OffsetMismatch == "ValueError: Offset mismatch"

FieldErrors == {"UnicodeDecodeError", "ValueError: Unknown field type"}

IdField == Fields(template)[IdIndex(template)]

AllProcessed == \A j \in 1..Len(item) : item[j] # FieldV

(* the bytes the step at hand takes from the buffer *)
Taken == SubSeq(src', Len(src) + 1, Len(src'))

LE2(bs) == bs[1] + 256 * bs[2]

LE4(bs) == bs[1] + 256 * bs[2] + 65536 * bs[3] + 16777216 * bs[4]

(* C1: a read that finds fewer bytes than it asks for makes parse fail;    *)
(* parse never returns a value after a short read.                         *)
C1_TruncationFails == result.returned => ~eof

(* C2: a descriptor with minVersion > formatVersion takes no byte and      *)
(* leaves the field None; a present int or str descriptor takes its bytes  *)
(* (all of them whenever the buffer holds them) and leaves a value of its  *)
(* kind, never None.                                                       *)
C2_VersionGating ==
    [][ pc = "field" =>
          /\ f.version > version =>
                /\ src' = src
                /\ pc' # "failed"
                /\ item'[k] = NoneV
          /\ (f.version <= version /\ f.t \in {"int", "str"} /\ pc' # "failed") =>
                /\ item'[k].tag = f.t
                /\ Len(src') >= Len(src)
                /\ (~eof' /\ f.t = "int") => Len(Taken) = f.size
                /\ (~eof' /\ f.t = "str") =>
                      Len(Taken) = 2 + LE2(Taken) ]_vars

C2_Witness ==
    /\ template = "Bonus"
    /\ pc = "check"
    /\ version = 1
    /\ ~eof
    /\ item = <<IntV(0), StrV(<<>>), NoneV>>
    /\ Len(src) = 12

(* C3 as stated: returned records carry their position as id, and a record *)
(* whose decoded id differs from its position always ends parse with the   *)
(* offset-mismatch error naming that position, that id and the version.    *)
C3_DriftAtFirstMismatch ==
    /\ result.returned =>
          \A j \in 1..Len(result.items) :
              result.items[j][IdIndex(template)] = IntV(j - 1)
    /\ (pc = "failed" /\ item[IdIndex(template)] # FieldV /\ item[IdIndex(template)] # IntV(i)) =>
          /\ err.kind = OffsetMismatch
          /\ err.index = i
          /\ err.actual = item[IdIndex(template)]
          /\ err.version = version
          /\ Len(items) = i

(* C3 amended: returned records carry their position as id; a record whose *)
(* decoded id differs from its position ends parse at that index, with the *)
(* offset-mismatch error when all its fields were processed and with the   *)
(* failing field's error otherwise; the mismatch error is raised for no    *)
(* other reason.                                                           *)
C3_DriftUnlessFieldError ==
    /\ result.returned =>
          \A j \in 1..Len(result.items) :
              result.items[j][IdIndex(template)] = IntV(j - 1)
    /\ (pc = "failed" /\ item[IdIndex(template)] # FieldV /\ item[IdIndex(template)] # IntV(i)) =>
          /\ Len(items) = i
          /\ err.index = i
          /\ err.version = version
          /\ IF AllProcessed
             THEN err.kind = OffsetMismatch /\ err.actual = item[IdIndex(template)]
             ELSE err.kind \in FieldErrors /\ err.field = f.name
    /\ err.kind = OffsetMismatch =>
          /\ pc = "failed"
          /\ item[IdIndex(template)] # IntV(i)
          /\ AllProcessed

C3_Witness ==
    /\ template = "Reduced"
    /\ pc = "failed"
    /\ ~eof
    /\ err.kind = OffsetMismatch
    /\ err.index = 1
    /\ err.actual = IntV(2)
    /\ Len(items) = 1

(* C4: parse ends either with an exception and no return value, taking no  *)
(* further step, or with (version, item_count, items) where items holds    *)
(* exactly item_count records in the order they were read.                 *)
C4_State ==
    /\ pc = "failed" => (~result.returned /\ err.kind # "none")
    /\ pc # "done" => ~result.returned
    /\ pc \notin {"failed", "idle"} => err = NoError
    /\ pc \in {"loop", "field", "check"} => Len(items) = i
    /\ result.returned =>
          /\ result.version = version
          /\ result.item_count = item_count
          /\ result.items = items
          /\ Len(result.items) = result.item_count
          /\ \A j \in 1..Len(result.items) :
                /\ Len(result.items[j]) = Len(Fields(template))
                /\ result.items[j][IdIndex(template)] = IntV(j - 1)
          /\ (template = "Reduced" /\ ~eof) =>
                \A j \in 1..Len(result.items) :
                    result.items[j][2] = IntV(src[6 + 5 * j])

C4_AllOrNothing == []C4_State /\ [][pc \notin {"failed", "done"}]_vars

C4_Witness ==
    /\ template = "Reduced"
    /\ result.returned
    /\ ~eof
    /\ result.item_count = 2
    /\ result.items[1][2] = IntV(5)
    /\ result.items[2][2] = IntV(1)

(* C5: a str field's value is the decoded text XORed with the key at       *)
(* offset i exactly when the descriptor has a key and version >= 3, and    *)
(* the decoded text itself in every other case.                            *)
C5_XorBoundary ==
    [][ (pc = "field" /\ f.version <= version /\ f.t = "str" /\ pc' # "failed") =>
          LET raw == decode(SubSeq(Taken, 3, Len(Taken))).s
              key == f.xor_key.s
          IN  /\ item'[k].tag = "str"
              /\ Len(item'[k].s) = Len(raw)
              /\ \A p \in 1..Len(raw) :
                    item'[k].s[p] =
                        IF f.xor_key # NoneV /\ version >= 3
                        THEN BitXor(raw[p], key[((p - 1 + i) % Len(key)) + 1])
                        ELSE raw[p] ]_vars

C5_Witness ==
    /\ template = "Bonus"
    /\ pc = "check"
    /\ version = 3
    /\ i = 1
    /\ ~eof
    /\ SubSeq(src, Len(src) - 3, Len(src)) = <<2, 0, 65, 65>>
    /\ item[2] = StrV(<<3, 0>>)

C5_WitnessBelow ==
    /\ template = "Bonus"
    /\ pc = "check"
    /\ version = 2
    /\ i = 1
    /\ ~eof
    /\ SubSeq(src, Len(src) - 3, Len(src)) = <<2, 0, 65, 65>>
    /\ item[2] = StrV(<<65, 65>>)

(* C7: version and item_count are the little-endian values of the first 2  *)
(* and the next 4 bytes, a present int field is the little-endian value of *)
(* exactly size bytes, and the 11-byte example decodes to (1, 1, [{id: 0,  *)
(* flag: 5}]).                                                             *)
C7_State ==
    /\ (pc \notin {"version", "idle"} /\ Len(src) >= 2) =>
          version = src[1] + 256 * src[2]
    /\ (pc \notin {"version", "count", "idle"} /\ Len(src) >= 6) =>
          item_count = LE4(SubSeq(src, 3, 6))
    /\ (template = "Reduced" /\ src = <<1, 0, 1, 0, 0, 0, 0, 0, 0, 0, 5>>
          /\ pc \in {"done", "failed"}) =>
          /\ pc = "done"
          /\ result = [returned |-> TRUE, version |-> 1, item_count |-> 1,
                       items |-> << <<IntV(0), IntV(5)>> >>]

C7_Step ==
    (pc = "field" /\ f.version <= version /\ f.t = "int" /\ ~eof') =>
        /\ Len(Taken) = f.size
        /\ pc' # "failed"
        /\ item'[k] = IntV(CASE f.size = 1 -> Taken[1]
                             [] f.size = 2 -> LE2(Taken)
                             [] f.size = 4 -> LE4(Taken))

C7_LittleEndian == []C7_State /\ [][C7_Step]_vars

C7_Witness ==
    /\ template = "Reduced"
    /\ src = <<1, 0, 1, 0, 0, 0, 0, 0, 0, 0, 5>>
    /\ ~eof
    /\ result.returned
    /\ result.items = << <<IntV(0), IntV(5)>> >>

(* C8: a present None-annotated field takes exactly size bytes when size   *)
(* > 0, and a 2-byte length L plus exactly L bytes otherwise; the field is *)
(* None afterwards and parse goes on with the byte that follows.           *)
C8_OpaqueConsumesExactly ==
    [][ (pc = "field" /\ f.version <= version /\ f.t = "None") =>
          /\ pc' # "failed"
          /\ item'[k] = NoneV
          /\ IF f.size > 0
             THEN Len(Taken) = f.size
             ELSE Len(Taken) >= 2 /\ Len(Taken) = 2 + LE2(Taken) ]_vars

(* C9: the offset-mismatch error is raised only when every field of the    *)
(* record has been processed, at the id check and without taking a byte;   *)
(* a field that fails raises its own error whatever the record's id is.    *)
C9_State ==
    /\ err.kind = OffsetMismatch => (AllProcessed /\ k = Len(Fields(template)))
    /\ (pc = "failed" /\ ~AllProcessed) =>
          (err.kind \in FieldErrors /\ err.field = f.name)

C9_Step ==
    /\ (pc = "field" /\ pc' = "failed") =>
          (err'.kind \in FieldErrors /\ err'.field = f.name)
    /\ err'.kind = OffsetMismatch => (pc = "check" /\ src' = src)

C9_CheckAfterFields == []C9_State /\ [][C9_Step]_vars

C9_Witness ==
    /\ template = "Scaled"
    /\ pc = "failed"
    /\ err.kind = "UnicodeDecodeError"
    /\ item[1] = IntV(5)
    /\ i = 0
    /\ ~eof

(* C10 as stated: with the id field gated, parse never gets past index 0:  *)
(* it fails there with the offset-mismatch error (actual id None), or      *)
(* returns an empty list for a count of 0 having read the header only.     *)
C10_GatedIdMismatchAtZero ==
    (pc \notin {"version", "idle"} /\ IdField.version > version) =>
        /\ i = 0
        /\ pc = "failed" =>
              /\ err.kind = OffsetMismatch
              /\ err.index = 0
              /\ err.actual = NoneV
        /\ result.returned =>
              /\ item_count = 0
              /\ result.items = <<>>
              /\ Len(src) <= 6

(* C10 amended: with the id field gated, parse never gets past index 0: it *)
(* fails there, with the offset-mismatch error (actual id None) when all   *)
(* fields of record 0 were processed and with the failing field's error    *)
(* otherwise, or returns an empty list for a count of 0 having read no     *)
(* byte beyond the 6-byte header.  Under Item at version 0 every field is  *)
(* gated, so the failure is always the offset mismatch.                    *)
C10_GatedIdFailsAtZero ==
    (pc \notin {"version", "idle"} /\ IdField.version > version) =>
        /\ i = 0
        /\ pc = "failed" =>
              /\ err.index = 0
              /\ IF AllProcessed
                 THEN err.kind = OffsetMismatch /\ err.actual = NoneV
                 ELSE err.kind \in FieldErrors
              /\ template = "Item" => err.kind = OffsetMismatch
              /\ template = "Item" => Len(src) <= 6
        /\ result.returned =>
              /\ item_count = 0
              /\ result.items = <<>>
              /\ Len(src) <= 6
              /\ ~eof => Len(src) = 6

C10_Witness ==
    /\ template = "Item"
    /\ version = 0
    /\ item_count = 2
    /\ ~eof
    /\ pc = "failed"
    /\ err.kind = OffsetMismatch
    /\ err.actual = NoneV
    /\ Len(src) = 6

(* C6 as stated: for every non-empty key, offset and string, _xor_str      *)
(* returns a string of the same length and a second application with the   *)
(* same key and offset gives the original string back.                     *)
C6_Involution ==
    /\ xpc \in {"once", "twice"} => (x1.ok /\ Len(x1.s) = Len(xs))
    /\ xpc = "twice" => (x2.ok /\ x2.s = xs)

KeyAscii == \A j \in 1..Len(xkey) : xkey[j] < 128

(* C6 amended: whenever every XORed code point is below 0x110000, which is *)
(* the case for every ASCII key, _xor_str returns a string of the same     *)
(* length whose character p is str[p] XOR key[(p + offset) mod len(key)],  *)
(* and a second application gives the original string back.                *)
C6_InvolutionInRange ==
    /\ (xpc \in {"once", "twice"} /\ KeyAscii) => x1.ok
    /\ (xpc \in {"once", "twice"} /\ x1.ok) =>
          /\ Len(x1.s) = Len(xs)
          /\ \A p \in 1..Len(xs) :
                /\ x1.s[p] = BitXor(xs[p], xkey[((p - 1 + xoffset) % Len(xkey)) + 1])
                /\ x1.s[p] < ChrLimit
    /\ xpc \in {"once", "twice"} =>
          (x1.ok <=> \A p \in 1..Len(xs) :
              BitXor(xs[p], xkey[((p - 1 + xoffset) % Len(xkey)) + 1]) < ChrLimit)
    /\ xpc = "twice" => (x1.ok /\ x2.ok /\ x2.s = xs)

C6_Witness ==
    /\ xpc = "twice"
    /\ xs = <<65, 233>>
    /\ xkey = <<65, 66>>
    /\ xoffset = 1
    /\ x1.s = <<3, 168>>
    /\ x2.s = xs

====
